---- MODULE Spec2Model ----
(***************************************************************************)
(* State-machine model of the workforce verification terminal              *)
(* (src/App.tsx, src/unnamed/part_001 = services/geminiService,            *)
(* src/components/Header.tsx, src/types.ts).                               *)
(*                                                                         *)
(* Representation.                                                         *)
(*  - A string that the code inspects character by character (the          *)
(*    employee id) is a tuple of one-character strings.                    *)
(*  - A JavaScript object is a function from the keys it owns to their     *)
(*    values; reading a key it does not own gives undefined, which is      *)
(*    falsy and equal to no string (operators Has, FieldIs, Truthy).       *)
(*  - JSON text of an object is the sequence of its <<key, value>>         *)
(*    members; JSON text of an array is the sequence of its elements'      *)
(*    texts.                                                               *)
(*  - A nullable value (string | null, PayrollOutput | null, the result    *)
(*    of localStorage.getItem) is <<>> for null and <<v>> for v; the       *)
(*    error message is a non-empty tuple, <<>> for null.                   *)
(*  - React commits the state updates queued by one handler run together   *)
(*    and flushes the effects of that commit before the next event is      *)
(*    handled, so one action is one handler run (or one promise            *)
(*    continuation) followed by the effects its commit triggers.           *)
(*  - check_in_time and current_time are passed through to the external    *)
(*    model and never read by the code; they are left out.                 *)
(***************************************************************************)
EXTENDS Integers, Sequences, FiniteSets, TLC

VARIABLES
    pc,             \* "mount": first render done, effects not yet run;
                    \* "rehydrate": mount effects ran, queued updates not yet committed;
                    \* "ready": startup settled
    queued,         \* state updates queued by the mount effect (App.tsx:42-48)
    activeTab,      \* App.tsx:30
    isDarkMode,     \* App.tsx:31
    input,          \* App.tsx:32
    history,        \* App.tsx:33
    isLoading,      \* App.tsx:34
    currentResult,  \* App.tsx:35
    error,          \* App.tsx:36
    stored,         \* localStorage item 'payroll_history_v3'
    storedTheme,    \* localStorage item 'theme'
    pending,        \* calls of calculatePayroll that have not settled yet
    now,            \* the wall clock read by new Date() (part_001:136)
    authorizedIds,  \* history variable, read by no action: the ids whose
                    \* submission was authorized and recorded under the id
                    \* submitted, since the last purge
    savedAtOpen,    \* history variable, read by no action: while the page
                    \* starts up, the 'payroll_history_v3' item as it was
                    \* when the page was opened; <<>> once startup settled
    seenAtSubmit    \* history variable, read by no action but to update it:
                    \* <<h>> while a call is outstanding, h being the value
                    \* of `history` in the render whose handleSubmit made the
                    \* call (the handler's closure, App.tsx:100); kept after
                    \* the response if the history was changed while the
                    \* call was outstanding, until the next call, purge or
                    \* reload; <<>> otherwise

vars == << pc, queued, activeTab, isDarkMode, input, history, isLoading,
           currentResult, error, stored, storedTheme, pending, now,
           authorizedIds, savedAtOpen, seenAtSubmit >>

(***************************************************************************)
(* Bounds of the model.                                                    *)
(***************************************************************************)
\* number of responses the external model delivers in one behaviour
MaxClock == 2

(***************************************************************************)
(* Program constants.                                                      *)
(***************************************************************************)
\* .slice(0, 50)
HistoryCap == 50
\* idNum < 1
MinIdNum == 1
\* idNum > 100
MaxIdNum == 100

(***************************************************************************)
(* Strings.                                                                *)
(***************************************************************************)
Digits == <<"0", "1", "2", "3", "4", "5", "6", "7", "8", "9">>

IsDigit(c) == \E d \in DOMAIN Digits : Digits[d] = c

DigitVal(c) == (CHOOSE d \in DOMAIN Digits : Digits[d] = c) - 1

\* String.prototype.toUpperCase on the letters the model types
UpperChar(c) ==
    CASE c = "e" -> "E"
      [] c = "m" -> "M"
      [] c = "x" -> "X"
      [] OTHER -> c

ToUpperCase(s) == [i \in DOMAIN s |-> UpperChar(s[i])]

EM001 == <<"E", "M", "0", "0", "1">>
EM1 == <<"E", "M", "1">>
EM999 == <<"E", "M", "9", "9", "9">>
EMnone == <<"E", "M">>

\* what the user types into the Manual Employee ID field
TypedIds == { EM001, <<"e", "m", "1">>, EM999, EMnone }

\* the Sector enum; the model offers two of the three options
Sectors == { "Mining", "Software" }

INITIAL_INPUT == [employee_id |-> EM001, sector |-> "Mining"]

(***************************************************************************)
(* JavaScript objects and JSON.                                            *)
(***************************************************************************)
Has(obj, k) == k \in DOMAIN obj

FieldIs(obj, k, v) == Has(obj, k) /\ obj[k] = v

\* the value of obj.k in a boolean context
Truthy(obj, k) == Has(obj, k) /\ obj[k] = TRUE

\* the order in which the keys of a record are written
KeyOrder ==
    << "employee_id", "sector", "authorized", "efficiency_percentage",
       "hours_worked", "hourly_rate", "base_salary", "final_salary",
       "work_status", "timestamp" >>

\* JSON.stringify of one object
StringifyObject(obj) ==
    LET keys == SelectSeq(KeyOrder, LAMBDA k : Has(obj, k))
    IN  [i \in DOMAIN keys |-> <<keys[i], obj[keys[i]]>>]

\* JSON.stringify(history)
Stringify(list) == [i \in DOMAIN list |-> StringifyObject(list[i])]

\* JSON.parse of one object text: a repeated key keeps its last value
ParseObject(text) ==
    [k \in { text[i][1] : i \in DOMAIN text } |->
        LET last == CHOOSE i \in DOMAIN text :
                        /\ text[i][1] = k
                        /\ \A j \in DOMAIN text : text[j][1] = k => j <= i
        IN  text[last][2]]

\* JSON.parse(saved)
Parse(text) == [i \in DOMAIN text |-> ParseObject(text[i])]

(***************************************************************************)
(* handleSubmit: the checks made before the external call.                 *)
(***************************************************************************)
\* history.some(h => h.employee_id === input.employee_id && h.authorized)
IsDuplicate(hist, id) ==
    \E i \in DOMAIN hist :
        FieldIs(hist[i], "employee_id", id) /\ Truthy(hist[i], "authorized")

\* input.employee_id.match(/^EM(\d+)$/) is not null
IdMatch(id) ==
    /\ Len(id) >= 3
    /\ id[1] = "E"
    /\ id[2] = "M"
    /\ \A i \in 3..Len(id) : IsDigit(id[i])

\* parseInt(idMatch[1]): the decimal value of the digits after "EM"
RECURSIVE DecimalValue(_, _)
DecimalValue(id, n) ==
    IF n < 3 THEN 0 ELSE 10 * DecimalValue(id, n - 1) + DigitVal(id[n])

ParseInt(id) == DecimalValue(id, Len(id))

\* idNum < 1 || idNum > 100
IdOutOfRange(idNum) == idNum < MinIdNum \/ idNum > MaxIdNum

\* the messages handed to setError
ErrDuplicate(id) == <<"ACCESS DENIED: Employee ", id, " has already completed verification.">>
ErrInvalidId == <<"INVALID ID: ID must follow the format 'EM###' (e.g., EM001).">>
ErrOutOfRange(id) == <<"UNAUTHORIZED: ID ", id, " is outside the valid workforce range (EM001-EM100).">>
ErrRejected(id) == <<"SUPERVISOR ALERT: Identity ", id, " was rejected by Phoenix AI protocols.">>
ErrService(cause) == <<"Supervisor System Error: ", cause>>

NoError == <<>>

\* mutant: the format check is made before the duplicate check
SubmitOutcomeFormatFirst(hist, id) ==
    IF ~IdMatch(id) THEN "format"
    ELSE IF IsDuplicate(hist, id) THEN "duplicate"
    ELSE IF IdOutOfRange(ParseInt(id)) THEN "range"
    ELSE "call"

\* mutant: the range check is left to the external model
SubmitOutcomeNoRange(hist, id) ==
    IF IsDuplicate(hist, id) THEN "duplicate"
    ELSE IF ~IdMatch(id) THEN "format"
    ELSE "call"

\* the first check of handleSubmit that ends the submission, or "call" when
\* the submission reaches calculatePayroll
SubmitOutcome(hist, id) ==
    IF IsDuplicate(hist, id) THEN "duplicate"
    ELSE IF ~IdMatch(id) THEN "format"
    ELSE IF IdOutOfRange(ParseInt(id)) THEN "range"
    ELSE "call"

SubmitError(outcome, id) ==
    CASE outcome = "duplicate" -> ErrDuplicate(id)
      [] outcome = "format" -> ErrInvalidId
      [] outcome = "range" -> ErrOutOfRange(id)
      [] OTHER -> NoError

(***************************************************************************)
(* calculatePayroll: the external model.                                   *)
(***************************************************************************)
\* the employee ids the model may write into its answer besides the one sent
OtherResponseIds == { EM001, EM1 }

\* the objects JSON.parse(response.text || '{}') can give for a request: an
\* object of the response schema, whose values are the model's choice, or the
\* empty object when the response carries no text
Responses(req) ==
    { [employee_id |-> id, sector |-> s, authorized |-> a] :
        id \in {req.employee_id} \cup OtherResponseIds,
        s \in {req.sector} \cup Sectors,
        a \in BOOLEAN }
    \cup { <<>> }

\* { ...result, timestamp: new Date().toISOString() }
WithTimestamp(result, t) ==
    [k \in DOMAIN result \cup {"timestamp"} |->
        IF k = "timestamp" THEN t ELSE result[k]]

\* why the call throws: the request fails, or the text is not JSON
FailureCauses == { "network", "parse" }

(***************************************************************************)
(* State updates.                                                          *)
(***************************************************************************)
Min(a, b) == IF a <= b THEN a ELSE b

\* mutant: the slice is forgotten
PrependUncapped(result, prev) == <<result>> \o prev

\* mutant: the new record overwrites the newest one
PrependReplacing(result, prev) ==
    IF prev = <<>> THEN <<result>> ELSE <<result>> \o Tail(prev)

\* prev => [result, ...prev].slice(0, 50)
PrependCapped(result, prev) ==
    SubSeq(<<result>> \o prev, 1, Min(HistoryCap, Len(prev) + 1))

\* the persistence effect: localStorage.setItem('payroll_history_v3', ...)
PersistHistory(hist) == <<Stringify(hist)>>

\* the theme effect: localStorage.setItem('theme', ...)
PersistTheme(dark) == << IF dark THEN "dark" ELSE "light" >>

RemoveAt(s, k) == [i \in 1..(Len(s) - 1) |-> IF i < k THEN s[i] ELSE s[i + 1]]

NoQueue == [history |-> <<>>, light |-> FALSE]

(***************************************************************************)
(* Startup.                                                                *)
(***************************************************************************)
\* the state right after the first render of a fresh page
FirstRender ==
    /\ pc = "mount"
    /\ queued = NoQueue
    /\ activeTab = "calculator"
    /\ isDarkMode = TRUE
    /\ input = INITIAL_INPUT
    /\ history = <<>>
    /\ isLoading = FALSE
    /\ currentResult = <<>>
    /\ error = NoError
    /\ pending = <<>>
    /\ seenAtSubmit = <<>>

\* an unauthorized record of an earlier session, written at time t
Denied(t) ==
    [employee_id |-> EM1, sector |-> "Mining", authorized |-> FALSE, timestamp |-> t]

\* an authorized record of an earlier session, written at time t
Granted(id, t) ==
    [employee_id |-> id, sector |-> "Mining", authorized |-> TRUE, timestamp |-> t]

\* a history an earlier session left at the cap: the oldest record (the
\* tail) authorizes EM001, the later ones are denials; the head is the newest
FullHistory ==
    [i \in 1..HistoryCap |->
        IF i = HistoryCap THEN Granted(EM001, -i) ELSE Denied(-i)]

\* what localStorage holds when the page is opened: nothing (first visit),
\* or the history an earlier session persisted
EarlierSessions == { <<>>, FullHistory }

\* the ids of the authorized records of a history
AuthorizedIn(hist) ==
    { hist[i].employee_id : i \in { j \in DOMAIN hist : Truthy(hist[j], "authorized") } }

Init ==
    /\ FirstRender
    /\ \E earlier \in EarlierSessions :
        /\ stored = IF earlier = <<>> THEN <<>> ELSE PersistHistory(earlier)
        /\ savedAtOpen = stored
        /\ authorizedIds = AuthorizedIn(earlier)
        \* the clock has ticked once more where an earlier session ran
        /\ now = IF earlier = <<>> THEN 0 ELSE 1
    /\ storedTheme = <<>>

\* mutant: the persistence effect is declared before the rehydration effect,
\* which then reads the list just written
MountEffectsPersistFirst ==
    /\ pc = "mount"
    /\ stored' = PersistHistory(history)
    /\ storedTheme' = PersistTheme(isDarkMode)
    /\ queued' = [history |-> <<Parse(stored'[1])>>,
                  light |-> storedTheme' = <<"light">>]
    /\ pc' = "rehydrate"
    /\ UNCHANGED << activeTab, isDarkMode, input, history, isLoading,
                    currentResult, error, pending, now, authorizedIds,
                    savedAtOpen, seenAtSubmit >>

\* the effects of the first commit, in declaration order: rehydration
\* (queues setHistory / setIsDarkMode), persistence of history, theme
MountEffects ==
    /\ pc = "mount"
    /\ queued' = [history |-> IF stored # <<>> THEN <<Parse(stored[1])>> ELSE <<>>,
                  light |-> storedTheme = <<"light">>]
    /\ stored' = PersistHistory(history)
    /\ storedTheme' = PersistTheme(isDarkMode)
    /\ pc' = IF queued' = NoQueue THEN "ready" ELSE "rehydrate"
    /\ UNCHANGED << activeTab, isDarkMode, input, history, isLoading,
                    currentResult, error, pending, now, authorizedIds,
                    seenAtSubmit >>
    /\ savedAtOpen' = IF pc' = "ready" THEN <<>> ELSE savedAtOpen

\* the commit of the updates queued by the rehydration effect, and the
\* effects whose dependency changed
RehydrateCommit ==
    /\ pc = "rehydrate"
    /\ IF queued.history # <<>>
       THEN /\ history' = queued.history[1]
            /\ stored' = PersistHistory(history')
       ELSE UNCHANGED << history, stored >>
    /\ IF queued.light
       THEN /\ isDarkMode' = FALSE
            /\ storedTheme' = PersistTheme(isDarkMode')
       ELSE UNCHANGED << isDarkMode, storedTheme >>
    /\ queued' = NoQueue
    /\ pc' = "ready"
    /\ savedAtOpen' = <<>>
    /\ UNCHANGED << activeTab, input, isLoading, currentResult, error, pending,
                    now, authorizedIds, seenAtSubmit >>

\* the page is loaded again: the in-memory state and the outstanding calls
\* are gone, localStorage stays
Reload ==
    /\ pc = "ready"
    /\ pc' = "mount"
    /\ queued' = NoQueue
    /\ activeTab' = "calculator"
    /\ isDarkMode' = TRUE
    /\ input' = INITIAL_INPUT
    /\ history' = <<>>
    /\ isLoading' = FALSE
    /\ currentResult' = <<>>
    /\ error' = NoError
    /\ pending' = <<>>
    /\ savedAtOpen' = stored
    /\ seenAtSubmit' = <<>>
    /\ UNCHANGED << stored, storedTheme, now, authorizedIds >>

(***************************************************************************)
(* Event handlers.                                                         *)
(***************************************************************************)
\* mutant: the submit button is not disabled while loading
CanSubmitWhileLoading == pc = "ready" /\ activeTab = "calculator"

\* the submit button carries disabled={isLoading}; the form is rendered on
\* the calculator tab only
CanSubmit == pc = "ready" /\ activeTab = "calculator" /\ ~isLoading

\* mutant: the early returns leave the busy flag set
HandleSubmitLeavingBusy ==
    /\ CanSubmit
    /\ LET id == input.employee_id
           outcome == SubmitOutcome(history, id)
       IN  IF outcome = "call"
           THEN /\ isLoading' = TRUE
                /\ error' = NoError
                /\ pending' = Append(pending, input)
                /\ seenAtSubmit' = <<history>>
           ELSE /\ isLoading' = TRUE
                /\ error' = SubmitError(outcome, id)
                /\ UNCHANGED << pending, seenAtSubmit >>
    /\ UNCHANGED << pc, queued, activeTab, isDarkMode, input, history,
                    currentResult, stored, storedTheme, now, authorizedIds,
                    savedAtOpen >>

\* mutant: the handler does not clear the message when it starts
HandleSubmitKeepingError ==
    /\ CanSubmit
    /\ LET id == input.employee_id
           outcome == SubmitOutcome(history, id)
       IN  IF outcome = "call"
           THEN /\ isLoading' = TRUE
                /\ pending' = Append(pending, input)
                /\ seenAtSubmit' = <<history>>
                /\ UNCHANGED error
           ELSE /\ isLoading' = FALSE
                /\ error' = SubmitError(outcome, id)
                /\ UNCHANGED << pending, seenAtSubmit >>
    /\ UNCHANGED << pc, queued, activeTab, isDarkMode, input, history,
                    currentResult, stored, storedTheme, now, authorizedIds,
                    savedAtOpen >>

\* handleSubmit up to its first return or its await
HandleSubmit ==
    /\ CanSubmit
    /\ LET id == input.employee_id
           outcome == SubmitOutcome(history, id)
       IN  IF outcome = "call"
           THEN /\ isLoading' = TRUE
                /\ error' = NoError
                /\ pending' = Append(pending, input)
                /\ seenAtSubmit' = <<history>>
           ELSE /\ isLoading' = FALSE
                /\ error' = SubmitError(outcome, id)
                /\ UNCHANGED << pending, seenAtSubmit >>
    /\ UNCHANGED << pc, queued, activeTab, isDarkMode, input, history,
                    currentResult, stored, storedTheme, now, authorizedIds,
                    savedAtOpen >>

\* mutant: the branch for an unauthorized answer only sets the error
SubmitResolvedDroppingDenied(req, result) ==
    LET record == WithTimestamp(result, now)
    IN  IF Truthy(record, "authorized")
        THEN /\ currentResult' = <<record>>
             /\ history' = PrependCapped(record, history)
             /\ stored' = PersistHistory(history')
             /\ isLoading' = FALSE
             /\ UNCHANGED error
        ELSE /\ error' = ErrRejected(req.employee_id)
             /\ isLoading' = FALSE
             /\ UNCHANGED << currentResult, history, stored >>

\* mutant: the record is prepended to the history of the handler's closure,
\* setHistory([result, ...history].slice(0, 50))
SubmitResolvedStale(req, result) ==
    LET record == WithTimestamp(result, now)
    IN  /\ currentResult' = <<record>>
        /\ history' = PrependCapped(record, seenAtSubmit[1])
        /\ error' = IF Truthy(record, "authorized")
                    THEN error
                    ELSE ErrRejected(req.employee_id)
        /\ isLoading' = FALSE
        /\ stored' = PersistHistory(history')

\* handleSubmit after the await resolved with `result`
SubmitResolved(req, result) ==
    LET record == WithTimestamp(result, now)
    IN  /\ currentResult' = <<record>>
        /\ history' = PrependCapped(record, history)
        /\ error' = IF Truthy(record, "authorized")
                    THEN error
                    ELSE ErrRejected(req.employee_id)
        /\ isLoading' = FALSE
        /\ stored' = PersistHistory(history')

\* the k-th outstanding call resolves with `result`
Resolves(k, result) ==
    /\ pc = "ready"
    /\ now < MaxClock
    /\ k \in DOMAIN pending
    /\ result \in Responses(pending[k])
    /\ SubmitResolved(pending[k], result)
    /\ pending' = RemoveAt(pending, k)
    /\ now' = now + 1
    /\ authorizedIds' = IF /\ Truthy(result, "authorized")
                           /\ FieldIs(result, "employee_id", pending[k].employee_id)
                        THEN authorizedIds \cup {pending[k].employee_id}
                        ELSE authorizedIds
    /\ seenAtSubmit' = IF seenAtSubmit = <<history>> THEN <<>> ELSE seenAtSubmit
    /\ UNCHANGED << pc, queued, activeTab, isDarkMode, input, storedTheme,
                    savedAtOpen >>

ModelResponds ==
    \E k \in DOMAIN pending : \E result \in Responses(pending[k]) : Resolves(k, result)

\* handleSubmit after the await rejected: catch, then finally
\* mutant: the catch branch also clears the result on screen
RejectsClearingResult(k, cause) ==
    /\ pc = "ready"
    /\ k \in DOMAIN pending
    /\ error' = ErrService(cause)
    /\ isLoading' = FALSE
    /\ currentResult' = <<>>
    /\ seenAtSubmit' = <<>>
    /\ pending' = RemoveAt(pending, k)
    /\ UNCHANGED << pc, queued, activeTab, isDarkMode, input, history,
                    stored, storedTheme, now, authorizedIds, savedAtOpen >>

\* mutant: the catch branch issues the call again
RejectsRetrying(k, cause) ==
    /\ pc = "ready"
    /\ k \in DOMAIN pending
    /\ error' = ErrService(cause)
    /\ isLoading' = TRUE
    /\ seenAtSubmit' = <<>>
    /\ pending' = Append(RemoveAt(pending, k), pending[k])
    /\ UNCHANGED << pc, queued, activeTab, isDarkMode, input, history,
                    currentResult, stored, storedTheme, now, authorizedIds,
                    savedAtOpen >>

\* mutant: the catch branch without the finally block
RejectsKeepingBusy(k, cause) ==
    /\ pc = "ready"
    /\ k \in DOMAIN pending
    /\ error' = ErrService(cause)
    /\ seenAtSubmit' = <<>>
    /\ pending' = RemoveAt(pending, k)
    /\ UNCHANGED << pc, queued, activeTab, isDarkMode, input, history, isLoading,
                    currentResult, stored, storedTheme, now, authorizedIds,
                    savedAtOpen >>

\* the k-th outstanding call throws
Rejects(k, cause) ==
    /\ pc = "ready"
    /\ k \in DOMAIN pending
    /\ error' = ErrService(cause)
    /\ isLoading' = FALSE
    /\ seenAtSubmit' = <<>>
    /\ pending' = RemoveAt(pending, k)
    /\ UNCHANGED << pc, queued, activeTab, isDarkMode, input, history,
                    currentResult, stored, storedTheme, now, authorizedIds,
                    savedAtOpen >>

ModelFails ==
    \E k \in DOMAIN pending : \E cause \in FailureCauses : Rejects(k, cause)

\* mutant: the purge empties the list without the persistence effect running
PurgeUnpersisted ==
    /\ pc = "ready"
    /\ activeTab = "admin"
    /\ history' = <<>>
    /\ authorizedIds' = {}
    /\ seenAtSubmit' = IF pending = <<>> THEN <<>> ELSE seenAtSubmit
    /\ UNCHANGED << pc, queued, activeTab, isDarkMode, input, isLoading,
                    currentResult, error, stored, storedTheme, pending, now,
                    savedAtOpen >>

\* PURGE RECORDS, confirmed
Purge ==
    /\ pc = "ready"
    /\ activeTab = "admin"
    /\ history' = <<>>
    /\ stored' = PersistHistory(history')
    /\ authorizedIds' = {}
    /\ seenAtSubmit' = IF pending = <<>> THEN <<>> ELSE seenAtSubmit
    /\ UNCHANGED << pc, queued, activeTab, isDarkMode, input, isLoading,
                    currentResult, error, storedTheme, pending, now, savedAtOpen >>

SetActiveTab ==
    /\ pc = "ready"
    /\ \E tab \in {"calculator", "admin"} :
        /\ tab # activeTab
        /\ activeTab' = tab
    /\ UNCHANGED << pc, queued, isDarkMode, input, history, isLoading,
                    currentResult, error, stored, storedTheme, pending, now, authorizedIds,
                    savedAtOpen, seenAtSubmit >>

ToggleDarkMode ==
    /\ pc = "ready"
    /\ isDarkMode' = ~isDarkMode
    /\ storedTheme' = PersistTheme(isDarkMode')
    /\ UNCHANGED << pc, queued, activeTab, input, history, isLoading,
                    currentResult, error, stored, pending, now, authorizedIds,
                    savedAtOpen, seenAtSubmit >>

ChangeEmployeeId ==
    /\ pc = "ready"
    /\ activeTab = "calculator"
    /\ \E typed \in TypedIds :
        /\ ToUpperCase(typed) # input.employee_id
        /\ input' = [input EXCEPT !.employee_id = ToUpperCase(typed)]
    /\ UNCHANGED << pc, queued, activeTab, isDarkMode, history, isLoading,
                    currentResult, error, stored, storedTheme, pending, now, authorizedIds,
                    savedAtOpen, seenAtSubmit >>

ChangeSector ==
    /\ pc = "ready"
    /\ activeTab = "calculator"
    /\ \E s \in Sectors :
        /\ s # input.sector
        /\ input' = [input EXCEPT !.sector = s]
    /\ UNCHANGED << pc, queued, activeTab, isDarkMode, history, isLoading,
                    currentResult, error, stored, storedTheme, pending, now, authorizedIds,
                    savedAtOpen, seenAtSubmit >>

Next ==
    \/ MountEffects
    \/ RehydrateCommit
    \/ Reload
    \/ HandleSubmit
    \/ ModelResponds
    \/ ModelFails
    \/ Purge
    \/ SetActiveTab
    \/ ToggleDarkMode
    \/ ChangeEmployeeId
    \/ ChangeSector

Spec == Init /\ [][Next]_vars

\* the awaited call settles: the promise of calculatePayroll resolves or rejects
Settles == ModelResponds \/ ModelFails

\* the page opened on the history an earlier session has stored
InitReturning == Init /\ stored # <<>>

\* the page under the assumption that an outstanding call settles in the end
\* (a pending call can always reject, so Settles stays enabled until it does)
SpecSettles == InitReturning /\ [][Next]_vars /\ WF_vars(Settles)

(***************************************************************************)
(* The checks of handleSubmit over a wider range of ids and histories: the *)
(* page is ready with some history, the user has typed some id, and        *)
(* submits.                                                                *)
(***************************************************************************)
EM100 == <<"E", "M", "1", "0", "0">>
EM101 == <<"E", "M", "1", "0", "1">>
EM0 == <<"E", "M", "0">>
EM000 == <<"E", "M", "0", "0", "0">>
EM1X == <<"E", "M", "1", "X">>
XEM1 == <<"X", "E", "M", "1">>
E1 == <<"E", "1">>
EMminus1 == <<"E", "M", "-", "1">>

SubmittedIds ==
    { EM001, EM1, EM100, EM101, EM0, EM000, EM999, EMnone, EM1X, XEM1, E1, EMminus1 }

\* the ids carried by the records of the histories tried
RecordedIds == { EM001, EM1, EM999, EMnone, EM1X }

\* the longest history tried
MaxTriedLen == 2

TriedRecords(t) ==
    { [employee_id |-> id, sector |-> "Mining", authorized |-> a, timestamp |-> t] :
        id \in RecordedIds, a \in BOOLEAN }
    \cup { [timestamp |-> t] }

RECURSIVE TriedHistories(_)
TriedHistories(n) ==
    IF n = 0 THEN { <<>> }
    ELSE TriedHistories(n - 1)
         \cup { <<r>> \o h : r \in TriedRecords(-n),
                             h \in { g \in TriedHistories(n - 1) : Len(g) = n - 1 } }

InitValidator ==
    /\ pc = "ready"
    /\ queued = NoQueue
    /\ activeTab = "calculator"
    /\ isDarkMode = TRUE
    /\ \E id \in SubmittedIds : input = [employee_id |-> id, sector |-> "Mining"]
    /\ \E h \in TriedHistories(MaxTriedLen) :
        /\ history = h
        /\ stored = PersistHistory(h)
        /\ authorizedIds = AuthorizedIn(h)
    /\ savedAtOpen = <<>>
    /\ seenAtSubmit = <<>>
    /\ isLoading = FALSE
    /\ currentResult = <<>>
    /\ error = NoError
    /\ storedTheme = PersistTheme(TRUE)
    /\ pending = <<>>
    /\ now = 0

NextValidator == HandleSubmit

SpecValidator == InitValidator /\ [][NextValidator]_vars

(***************************************************************************)
(* The payroll figures of a record.  calculatePayroll asks the external    *)
(* model for them (SYSTEM_PROMPT, steps 5 to 11) and returns the parsed    *)
(* answer with a timestamp; handleSubmit stores it.  Neither computes a    *)
(* figure, so the figures of a record are the ones the model reported.     *)
(* Numbers are written in hundredths: 8.5 hours is 850, a rate of 50 is    *)
(* 5000, a salary of 467.50 is 46750, an efficiency of 92 is 9200.         *)
(***************************************************************************)
EM023 == <<"E", "M", "0", "2", "3">>
EM006 == <<"E", "M", "0", "0", "6">>

\* the ids submitted: EM023 lies in group 4 (even), EM006 in group 1 (odd)
PayrollIds == { EM023, EM006 }

\* the values the answer may carry in its fields of type NUMBER and in
\* work_status, of type STRING
ReportedEfficiencies == { -2000, 4000, 9200, 13000 }
ReportedHours == { 550, 850 }
ReportedRates == { 5000, 5500 }
ReportedBaseSalaries == { 27500, 42500 }
ReportedFinalSalaries == { 38250, 42500, 46750 }
ReportedWorkStatus == { "full_day", "half_day", "denied" }

\* the answers that conform to the response schema, written with the fields
\* the payroll rules speak of; the id and the sector are the ones sent
PayrollAnswers(req) ==
    { [employee_id |-> req.employee_id, sector |-> req.sector, authorized |-> a,
       efficiency_percentage |-> e, hours_worked |-> h, hourly_rate |-> r,
       base_salary |-> b, final_salary |-> f, work_status |-> w] :
        a \in BOOLEAN, e \in ReportedEfficiencies, h \in ReportedHours,
        r \in ReportedRates, b \in ReportedBaseSalaries,
        f \in ReportedFinalSalaries, w \in ReportedWorkStatus }

\* the number of answers received in a run
MaxPayrollAnswers == 1

\* the page is ready, its history is empty, and an id and a sector are typed
InitPayroll ==
    /\ pc = "ready"
    /\ queued = NoQueue
    /\ activeTab = "calculator"
    /\ isDarkMode = TRUE
    /\ \E id \in PayrollIds, s \in Sectors : input = [employee_id |-> id, sector |-> s]
    /\ history = <<>>
    /\ stored = PersistHistory(<<>>)
    /\ authorizedIds = {}
    /\ savedAtOpen = <<>>
    /\ seenAtSubmit = <<>>
    /\ isLoading = FALSE
    /\ currentResult = <<>>
    /\ error = NoError
    /\ storedTheme = PersistTheme(TRUE)
    /\ pending = <<>>
    /\ now = 0

\* the outstanding call resolves with an answer carrying payroll figures
PayrollResponds ==
    /\ pc = "ready"
    /\ pending # <<>>
    /\ now < MaxPayrollAnswers
    /\ \E result \in PayrollAnswers(Head(pending)) :
        /\ SubmitResolved(Head(pending), result)
        /\ authorizedIds' = IF Truthy(result, "authorized")
                            THEN authorizedIds \cup {Head(pending).employee_id}
                            ELSE authorizedIds
    /\ pending' = Tail(pending)
    /\ now' = now + 1
    /\ seenAtSubmit' = IF seenAtSubmit = <<history>> THEN <<>> ELSE seenAtSubmit
    /\ UNCHANGED << pc, queued, activeTab, isDarkMode, input, storedTheme,
                    savedAtOpen >>

NextPayroll ==
    \/ HandleSubmit
    \/ PayrollResponds

SpecPayroll == InitPayroll /\ [][NextPayroll]_vars

(***************************************************************************)
(* The properties checked.  The vocabulary of the specification, stated    *)
(* without the operators of the handlers.                                  *)
(***************************************************************************)
Range(seq) == { seq[i] : i \in DOMAIN seq }

\* the history holds a record with this id and authorized = true
HoldsAuthorized(hist, id) ==
    \E r \in Range(hist) :
        /\ {"employee_id", "authorized"} \subseteq DOMAIN r
        /\ r.employee_id = id
        /\ r.authorized = TRUE

DigitChars == { "0", "1", "2", "3", "4", "5", "6", "7", "8", "9" }

\* EM followed by one or more digits
WellFormedId(id) ==
    /\ Len(id) > 2
    /\ SubSeq(id, 1, 2) = <<"E", "M">>
    /\ Range(SubSeq(id, 3, Len(id))) \subseteq DigitChars

RECURSIVE Pow10(_)
Pow10(n) == IF n = 0 THEN 1 ELSE 10 * Pow10(n - 1)

ValueOfDigit(c) ==
    CASE c = "0" -> 0 [] c = "1" -> 1 [] c = "2" -> 2 [] c = "3" -> 3 [] c = "4" -> 4
      [] c = "5" -> 5 [] c = "6" -> 6 [] c = "7" -> 7 [] c = "8" -> 8 [] c = "9" -> 9

RECURSIVE WeightedSum(_, _)
WeightedSum(id, i) ==
    IF i > Len(id) THEN 0
    ELSE ValueOfDigit(id[i]) * Pow10(Len(id) - i) + WeightedSum(id, i + 1)

\* the numeric part of a well-formed id
NumericPart(id) == WeightedSum(id, 3)

\* the numeric part lies in [1, 100]
InWorkforceRange(id) == NumericPart(id) \in 1..100

\* the error kinds of the specification, by the message shown
DuplicateAccess(id) == ErrDuplicate(id)
InvalidIdFormat == ErrInvalidId
OutOfRange(id) == ErrOutOfRange(id)
UnauthorizedByModel(id) == ErrRejected(id)
IsExternalServiceFailure(msg) == \E cause \in FailureCauses : msg = ErrService(cause)

\* the outcome the specification gives a submission of id against hist
ExpectedOutcome(hist, id) ==
    CASE HoldsAuthorized(hist, id) -> "DuplicateAccess"
      [] ~HoldsAuthorized(hist, id) /\ ~WellFormedId(id) -> "InvalidIdFormat"
      [] ~HoldsAuthorized(hist, id) /\ WellFormedId(id) /\ ~InWorkforceRange(id) -> "OutOfRange"
      [] OTHER -> "Evaluate"

\* C1 (as claimed): in every reachable state the history holds at most one
\* record with authorized = true for any given employee id.
C1_OneAuthorizedRecordPerId ==
    \A i, j \in DOMAIN history :
        ( /\ i # j
          /\ Truthy(history[i], "authorized")
          /\ Truthy(history[j], "authorized")
          /\ Has(history[i], "employee_id")
          /\ Has(history[j], "employee_id") )
        => history[i].employee_id # history[j].employee_id

\* C2 (as claimed): with no purge in between, once a submission of an id has
\* been authorized (and its record, carrying that id, put into the history),
\* every later submission of that id is rejected with the DuplicateAccess
\* message, whatever was submitted in between.
C2_AuthorizedIdAlwaysRejected ==
    [][ (HandleSubmit /\ input.employee_id \in authorizedIds)
            => (error' = DuplicateAccess(input.employee_id) /\ pending' = pending) ]_vars

\* C3: the outcome of a submission is DuplicateAccess if the history holds an
\* authorized record with the id, otherwise InvalidIdFormat if the id is not
\* EM followed by digits, otherwise OutOfRange if the numeric part is outside
\* [1, 100], otherwise the submission goes to the external evaluation; and
\* exactly one of the four applies.
C3_ValidatorOrder ==
    [][ HandleSubmit =>
          LET id == input.employee_id
              expected == ExpectedOutcome(history, id)
              called == /\ pending' = Append(pending, input)
                        /\ isLoading'
                        /\ error' = NoError
              refused(msg) == /\ pending' = pending
                              /\ ~isLoading'
                              /\ error' = msg
          IN  /\ expected = "DuplicateAccess" <=> refused(DuplicateAccess(id))
              /\ expected = "InvalidIdFormat" <=> refused(InvalidIdFormat)
              /\ expected = "OutOfRange" <=> refused(OutOfRange(id))
              /\ expected = "Evaluate" <=> called ]_vars

\* C3 witness: an id that is both malformed and held authorized in the
\* history was submitted and refused as a duplicate.
C3_Witness ==
    /\ input.employee_id = EM1X
    /\ HoldsAuthorized(history, EM1X)
    /\ error = DuplicateAccess(EM1X)

\* C4: a submission the validator rejects (duplicate, malformed or out of
\* range id) starts no call of the external model and leaves the in-memory
\* and the persisted history unchanged.
C4_RejectionHasNoEffect ==
    [][ (HandleSubmit /\ ExpectedOutcome(history, input.employee_id) # "Evaluate")
            => /\ pending' = pending
               /\ history' = history
               /\ stored' = stored
               /\ error' # NoError ]_vars

\* C4 witness: EM999 was refused as out of range while the history holds
\* records and no call is outstanding.
C4_Witness ==
    /\ error = OutOfRange(EM999)
    /\ history # <<>>
    /\ pending = <<>>
    /\ stored = PersistHistory(history)

\* C5: at most one call of the external model is outstanding, and the busy
\* flag is set while one is.
C5_OneRequestInFlight ==
    /\ Len(pending) <= 1
    /\ pending # <<>> => isLoading

\* C5 witness: a call is outstanding and the form is on screen.
C5_Witness ==
    /\ Len(pending) = 1
    /\ isLoading
    /\ activeTab = "calculator"
    /\ pc = "ready"

\* the records a response leaves of the old history: all of them, or all but
\* the oldest (the tail) when the history was full
KeptOf(hist) == IF Len(hist) = 50 THEN SubSeq(hist, 1, 49) ELSE hist

\* the record made of a response received at time t
IsRecordOf(rec, result, t) ==
    /\ DOMAIN rec = DOMAIN result \cup {"timestamp"}
    /\ rec.timestamp = t
    /\ \A key \in DOMAIN result : rec[key] = result[key]

\* C6: the history never holds more than 50 records; a record received from
\* the model is placed at the head; when the history holds 50 records the one
\* dropped is the tail, and the order of the others is kept.
C6_HistoryCapped ==
    [][ /\ Len(history) <= 50
        /\ Len(history') <= 50
        /\ \A k \in DOMAIN pending : \A result \in Responses(pending[k]) :
              Resolves(k, result) =>
                  /\ history' # <<>>
                  /\ IsRecordOf(history'[1], result, now)
                  /\ SubSeq(history', 2, Len(history')) = KeptOf(history) ]_vars

\* C6 witness: a response reached a full history: the new record is the head
\* and the tail is the record that was the second oldest.
C6_Witness ==
    /\ Len(history) = 50
    /\ history[1].timestamp >= 1
    /\ history[50] = Denied(-49)

\* C7: whenever no persistence effect is pending, the list stored under the
\* history key is the in-memory history.
C7_PersistedOnEveryMutation ==
    pc # "mount" => (stored # <<>> /\ Parse(stored[1]) = history)

\* C7 witness: two responses were recorded and persisted.
C7_Witness ==
    /\ pc = "ready"
    /\ Len(history) = 2
    /\ stored # <<>>
    /\ Parse(stored[1]) = history

\* C8: when startup completes, the in-memory history is the history an
\* earlier session persisted: same records, same order.
C8_RehydrationRoundTrip ==
    [][ (pc # "ready" /\ pc' = "ready" /\ savedAtOpen # <<>>)
            => /\ Stringify(history') = savedAtOpen[1]
               /\ history' = Parse(savedAtOpen[1]) ]_vars

\* C8 witness: the page was opened on the full history of an earlier
\* session and has rehydrated it.
C8_Witness ==
    /\ pc = "ready"
    /\ history = FullHistory
    /\ currentResult = <<>>

\* C9: when the external call fails, the submission ends with a non-empty
\* error message, no record is added, and the history (in memory and
\* persisted) and the current result are unchanged.
C9_FailureLeavesHistory ==
    [][ ModelFails =>
          /\ error' # NoError
          /\ IsExternalServiceFailure(error')
          /\ ~isLoading'
          /\ Len(pending') = Len(pending) - 1
          /\ history' = history
          /\ stored' = stored
          /\ currentResult' = currentResult ]_vars

\* C9 witness: a call failed after an earlier one had left a result on screen.
C9_Witness ==
    /\ IsExternalServiceFailure(error)
    /\ ~isLoading
    /\ currentResult # <<>>
    /\ history # <<>>

\* C10: when the model answers authorized = false, the error message is the
\* UnauthorizedByModel one, and the record is still created once: it is the
\* current result and is at the head of the history, exactly once.
C10_DeniedRecordStored ==
    [][ \A k \in DOMAIN pending : \A result \in Responses(pending[k]) :
          (Resolves(k, result) /\ FieldIs(result, "authorized", FALSE)) =>
              /\ error' = UnauthorizedByModel(pending[k].employee_id)
              /\ history' # <<>>
              /\ IsRecordOf(history'[1], result, now)
              /\ currentResult' = <<history'[1]>>
              /\ Cardinality({ i \in DOMAIN history' : history'[i] = history'[1] }) = 1
              /\ SubSeq(history', 2, Len(history')) = KeptOf(history) ]_vars

\* C10 witness: the model denied EM001; the denial is on screen and at the
\* head of the history.
C10_Witness ==
    /\ error = UnauthorizedByModel(EM001)
    /\ currentResult # <<>>
    /\ FieldIs(currentResult[1], "authorized", FALSE)
    /\ history # <<>>
    /\ history[1] = currentResult[1]

\* C11: nothing is retried: a call of the external model is started only by
\* a submit event and one at a time, and a step in which a call fails or is
\* answered (authorized or not) removes that call and starts no other.
C11_NoAutomaticRetry ==
    [][ /\ Len(pending') > Len(pending)
            => (HandleSubmit /\ pending' = Append(pending, input))
        /\ (ModelFails \/ ModelResponds)
            => \E k \in DOMAIN pending : pending' = RemoveAt(pending, k) ]_vars

\* C11 witness: the only call made for EM001 failed; none is outstanding and
\* the form accepts a new submission.
C11_Witness ==
    /\ IsExternalServiceFailure(error)
    /\ pending = <<>>
    /\ ~isLoading
    /\ history = <<>>
    /\ input.employee_id = EM001

\* C12: provided the outstanding call settles in the end, the busy flag never
\* stays set: whenever it is set it is cleared later (a refused submission
\* never leaves it set at all, see C3).
C12_BusyFlagCleared == isLoading ~> ~isLoading

\* C12 witness: a submission went to the model, was answered with an
\* authorized record, and the busy flag is down again.
C12_Witness ==
    /\ pc = "ready"
    /\ ~isLoading
    /\ pending = <<>>
    /\ error = NoError
    /\ currentResult # <<>>
    /\ Truthy(currentResult[1], "authorized")

\* C13: no error is fatal: while an error message is shown no call is
\* outstanding and the busy flag is down, so the submit button is enabled;
\* and a submission made then with a well-formed id in [1, 100] that has no
\* authorized record in the history starts a call of the external model and
\* clears the message.
C13_ErrorsRecoverable ==
    [][ error # NoError =>
          /\ ~isLoading
          /\ pending = <<>>
          /\ ( /\ HandleSubmit
               /\ WellFormedId(input.employee_id)
               /\ InWorkforceRange(input.employee_id)
               /\ ~HoldsAuthorized(history, input.employee_id) )
             => /\ pending' = <<input>>
                /\ isLoading'
                /\ error' = NoError ]_vars

\* C13 witness: EM999 was refused as out of range, the user has typed EM001,
\* which has no authorized record, and the form is ready to submit it.
C13_Witness ==
    /\ error = OutOfRange(EM999)
    /\ input.employee_id = EM001
    /\ ~HoldsAuthorized(history, EM001)
    /\ pc = "ready"
    /\ activeTab = "calculator"
    /\ ~isLoading

BaseRate(sector) ==
    CASE sector = "Mining" -> 5000
      [] sector = "Hardware" -> 4500
      [] sector = "Software" -> 6000

\* floor((N - 1) / 5)
RateGroup(n) == (n - 1) \div 5

ExpectedHourlyRate(sector, n) ==
    BaseRate(sector) + (IF RateGroup(n) % 2 = 1 THEN 500 ELSE 0)

HasPayrollFigures(r) ==
    { "employee_id", "sector", "authorized", "efficiency_percentage", "hours_worked",
      "hourly_rate", "base_salary", "final_salary", "work_status" } \subseteq DOMAIN r

\* C15 (as claimed): every authorized record of the history whose id is EM<N>
\* with N in [1, 100] has hourly_rate = base rate of its sector, plus 5 if
\* floor((N - 1) / 5) is odd, and base_salary = hours_worked x hourly_rate;
\* two such records with the same id and sector have the same rate.
C15_RateAndBaseSalary ==
    /\ \A r \in Range(history) :
          ( /\ HasPayrollFigures(r)
            /\ r.authorized
            /\ WellFormedId(r.employee_id)
            /\ InWorkforceRange(r.employee_id)
            /\ r.sector \in {"Mining", "Hardware", "Software"} )
          => /\ r.hourly_rate = ExpectedHourlyRate(r.sector, NumericPart(r.employee_id))
             /\ r.base_salary * 100 = r.hours_worked * r.hourly_rate
    /\ \A r, q \in Range(history) :
          ( /\ HasPayrollFigures(r) /\ HasPayrollFigures(q)
            /\ r.authorized /\ q.authorized
            /\ r.employee_id = q.employee_id
            /\ r.sector = q.sector )
          => r.hourly_rate = q.hourly_rate

\* C16 (as claimed): every authorized record of the history has final_salary
\* = base_salary x 1.10 if its efficiency is 90 or more, = base_salary if
\* its efficiency is at least 50 and below 90, and = base_salary x 0.90 if
\* its efficiency is below 50.
C16_FinalSalaryTiers ==
    \A r \in Range(history) :
        (HasPayrollFigures(r) /\ r.authorized) =>
            LET e == r.efficiency_percentage
            IN  /\ e >= 9000 => r.final_salary * 100 = r.base_salary * 110
                /\ (e >= 5000 /\ e < 9000) => r.final_salary = r.base_salary
                /\ e < 5000 => r.final_salary * 100 = r.base_salary * 90

\* C17 (as claimed): every record of the history has work_status denied if
\* authorized is false; otherwise full_day if hours_worked is 6 or more and
\* half_day if it is less.
C17_WorkStatus ==
    \A r \in Range(history) :
        HasPayrollFigures(r) =>
            r.work_status = IF ~r.authorized THEN "denied"
                            ELSE IF r.hours_worked >= 600 THEN "full_day"
                            ELSE "half_day"

\* C18 (as claimed): every record of the history has an efficiency_percentage
\* from 0 to 100.
C18_EfficiencyInRange ==
    \A r \in Range(history) :
        Has(r, "efficiency_percentage") =>
            (r.efficiency_percentage >= 0 /\ r.efficiency_percentage <= 10000)

\* C19 (as claimed): the record a response adds to the history carries the
\* employee id and the sector of the submission the response belongs to,
\* whatever id and sector the response itself names.
C19_RecordCarriesSubmittedId ==
    [][ \A k \in DOMAIN pending : \A result \in Responses(pending[k]) :
          ( /\ Resolves(k, result)
            /\ Has(result, "employee_id")
            /\ Has(result, "sector") )
          => /\ history' # <<>>
             /\ FieldIs(history'[1], "employee_id", pending[k].employee_id)
             /\ FieldIs(history'[1], "sector", pending[k].sector) ]_vars

\* C20 (as claimed): when the history holds the authorized record of an
\* earlier submission of an id with numeric part N, a submission of any
\* well-formed id with the same numeric part is refused with the
\* DuplicateAccess message and starts no call.
C20_SingleUsePerNumber ==
    [][ ( /\ HandleSubmit
          /\ WellFormedId(input.employee_id)
          /\ \E id \in authorizedIds :
                /\ HoldsAuthorized(history, id)
                /\ WellFormedId(id)
                /\ NumericPart(id) = NumericPart(input.employee_id) )
        => /\ error' = DuplicateAccess(input.employee_id)
           /\ pending' = pending ]_vars

\* C21 (as claimed): from the start of the page until rehydration has
\* settled, the value under the history key of localStorage is the one an
\* earlier session left there; in particular the empty list is never
\* written over a stored history that is not empty.
C21_StartupKeepsStored ==
    (pc # "ready" /\ savedAtOpen # <<>>) => stored = savedAtOpen

\* C22: a response is recorded against the history as it is when the call
\* resolves: the new record is put in front of those records (all but the
\* tail when there are 50), so none of them is lost; and when the history
\* was purged while the call was outstanding, the history then holds the new
\* record alone, and no record of the history the submission was made with
\* comes back.
C22_PurgeNotUndone ==
    [][ \A k \in DOMAIN pending : \A result \in Responses(pending[k]) :
          Resolves(k, result) =>
              /\ history' # <<>>
              /\ IsRecordOf(history'[1], result, now)
              /\ SubSeq(history', 2, Len(history')) = KeptOf(history)
              /\ (seenAtSubmit # <<history>> /\ history = <<>>)
                    => history' = <<history'[1]>> ]_vars

\* C22 witness: a submission was made with a history holding records, the
\* history was purged while the call was outstanding, and the response has
\* arrived: the history holds the new record alone.
C22_Witness ==
    /\ pc = "ready"
    /\ pending = <<>>
    /\ seenAtSubmit # <<>>
    /\ seenAtSubmit[1] # <<>>
    /\ currentResult # <<>>
    /\ history = <<currentResult[1]>>

\* C23 (as claimed): every record of the history is a complete Verification
\* Record: it has an employee id, a sector and a timestamp, and its
\* authorized field is a boolean.
C23_RecordsComplete ==
    \A r \in Range(history) :
        /\ {"employee_id", "sector", "authorized", "timestamp"} \subseteq DOMAIN r
        /\ r.authorized \in BOOLEAN

\* C24: the message belongs to the latest submission.  No message is shown
\* while a submission is in progress; a submission the validator refuses
\* ends with the message of its own refusal; one whose call fails ends with
\* the failure message; one the model answers ends with the
\* UnauthorizedByModel message for its id if the answer is not authorized,
\* and with no message and its own record as the current result if it is.
C24_ErrorOfLatestSubmission ==
    [][ /\ isLoading => error = NoError
        /\ HandleSubmit =>
              LET id == input.employee_id
              IN  IF pending' # pending
                  THEN error' = NoError
                  ELSE /\ error' # NoError
                       /\ error' \in { DuplicateAccess(id), InvalidIdFormat, OutOfRange(id) }
        /\ ModelFails => (error' # NoError /\ IsExternalServiceFailure(error'))
        /\ \A k \in DOMAIN pending : \A result \in Responses(pending[k]) :
              Resolves(k, result) =>
                  IF FieldIs(result, "authorized", TRUE)
                  THEN /\ error' = NoError
                       /\ currentResult' # <<>>
                       /\ IsRecordOf(currentResult'[1], result, now)
                       /\ history'[1] = currentResult'[1]
                  ELSE /\ error' # NoError
                       /\ error' = UnauthorizedByModel(pending[k].employee_id) ]_vars

\* C24 witness: a submission the model denied was followed by one it
\* authorized: no message is shown and the authorized record is the current
\* result.
C24_Witness ==
    /\ pc = "ready"
    /\ ~isLoading
    /\ pending = <<>>
    /\ error = NoError
    /\ Len(history) = 2
    /\ FieldIs(history[2], "authorized", FALSE)
    /\ FieldIs(history[1], "authorized", TRUE)
    /\ currentResult = <<history[1]>>

====
